---- MODULE Spec2Model ----
(***************************************************************************)
(* Bug Hunter Agent: the analysis pipeline (bug_agent.py) and the          *)
(* response-normalisation layer (utils/code_analyzer.py,                   *)
(* utils/cpp_checker.py).                                                  *)
(*                                                                         *)
(* Text.  A Python str is modelled as a finite sequence of atoms.  An atom *)
(* is a TLA+ string standing for a run of characters the regular           *)
(* expressions of the source never look inside: one whitespace character   *)
(* (" " or "\n"), one digit, one punctuation mark, a code fence, a whole   *)
(* word, or JSONDOC, the serialisation of one JSON document.  The regular  *)
(* expressions, str.strip, str.split and str.join are computed on atoms    *)
(* exactly as Python computes them on characters.                          *)
(***************************************************************************)
EXTENDS Integers, Sequences, FiniteSets, TLC

VARIABLES
    \* --- parse_llm_response applied to one raw model reply (SpecParse)
    response,       \* the raw reply: [text |-> atoms, json |-> the document JSONDOC stands for]
    parsed,         \* what parse_llm_response(response) did: a record or an exception
    \* --- format_rag_docs applied to one list of retrieval hits (SpecRag)
    rag_input,      \* [docs |-> the hits, max_docs |-> k]
    rag_output,     \* what format_rag_docs(docs, k) did: a string or an exception
    \* --- one batch: process_csv, run_batch or analyze_single_snippet (Spec)
    batch,          \* [kind |-> the caller, entries |-> the IDs of the input rows]
    bpc,            \* where the batch is: start, connected, loop, analyzing, closed, aborted
    conn,           \* the retrieval-collaborator connection: "closed" or "open"
    acquired,       \* how many times the connection was acquired
    abort_cause,    \* what ended an aborted batch
    idx,            \* the number of rows read
    results,        \* the results list
    call            \* the running (or last) analyze_entry call: its position and locals

parseVars == <<response, parsed>>
ragVars == <<rag_input, rag_output>>
batchVars == <<batch, bpc, conn, acquired, abort_cause, idx, results, call>>

-----------------------------------------------------------------------------
(* Atoms *)

SP == " "
NL == "\n"
FENCE == "<fence>"         \* three backquotes
JSONDOC == "<json>"          \* the text of one serialised JSON document
TAG_JSON == "json"           \* the language tag of a fence
LABEL_CC == "Corrected Code" \* the label the fallback parser searches for
DigitChars == <<"0", "1", "2", "3", "4", "5", "6", "7", "8", "9">>
DigitSet == {DigitChars[i] : i \in 1..10}

IsWs(a) == a \in {SP, NL}
IsDigit(a) == a \in DigitSet

MinOf(S) == CHOOSE x \in S : \A y \in S : x <= y
MaxOf(S) == CHOOSE x \in S : \A y \in S : x >= y

\* first index >= i of t that is not whitespace, Len(t)+1 when there is none
SkipWs(t, i) == MinOf({j \in i..(Len(t) + 1) : j = Len(t) + 1 \/ ~IsWs(t[j])})
\* first index >= i of t that is not a digit
SkipDigits(t, i) == MinOf({j \in i..(Len(t) + 1) : j = Len(t) + 1 \/ ~IsDigit(t[j])})
\* first index >= i of t that holds a newline, Len(t)+1 when there is none
LineEnd(t, i) == MinOf({j \in i..(Len(t) + 1) : j = Len(t) + 1 \/ t[j] = NL})

\* str.strip()
Strip(t) ==
    LET first == SkipWs(t, 1)
        last == MaxOf({j \in 0..Len(t) : j = 0 \/ ~IsWs(t[j])})
    IN IF first > last THEN <<>> ELSE SubSeq(t, first, last)

\* str.split(): the maximal runs of non-whitespace
RECURSIVE SplitFrom(_, _)
SplitFrom(t, i) ==
    LET s == SkipWs(t, i)
        e == MinOf({j \in s..(Len(t) + 1) : j = Len(t) + 1 \/ IsWs(t[j])})
    IN IF s > Len(t) THEN <<>> ELSE <<SubSeq(t, s, e - 1)>> \o SplitFrom(t, e)

Split(t) == SplitFrom(t, 1)

\* sep.join(parts)
RECURSIVE Join(_, _)
Join(sep, parts) ==
    IF parts = <<>> THEN <<>>
    ELSE IF Len(parts) = 1 THEN parts[1]
    ELSE parts[1] \o sep \o Join(sep, Tail(parts))

\* str(n) of an int
RECURSIVE NatToText(_)
NatToText(n) ==
    IF n < 10 THEN <<DigitChars[n + 1]>>
    ELSE NatToText(n \div 10) \o <<DigitChars[(n % 10) + 1]>>

IntToText(n) == IF n < 0 THEN <<"-">> \o NatToText(-n) ELSE NatToText(n)

RECURSIVE TextToNat(_)
TextToNat(t) ==
    IF t = <<>> THEN 0
    ELSE 10 * TextToNat(SubSeq(t, 1, Len(t) - 1))
         + (CHOOSE d \in 0..9 : DigitChars[d + 1] = t[Len(t)])

-----------------------------------------------------------------------------
(* JSON values, as json.loads returns them.  One record shape for all:     *)
(* t the type, n the number, s the string, items the members (of an array; *)
(* of an object: the values under "bug_lines", "explanations",             *)
(* "corrected_code", JAbsent for a missing key).                           *)

JV(t, n, s, items) == [t |-> t, n |-> n, s |-> s, items |-> items]
JAbsent == JV("absent", 0, <<>>, <<>>)
JNull == JV("null", 0, <<>>, <<>>)
JNum(n) == JV("num", n, <<>>, <<>>)
JStr(s) == JV("str", 0, s, <<>>)
JArr(items) == JV("arr", 0, <<>>, items)
JObj(bl, ex, cc) == JV("obj", 0, <<>>, <<bl, ex, cc>>)

KeyIndex(key) ==
    CASE key = "bug_lines" -> 1
      [] key = "explanations" -> 2
      [] key = "corrected_code" -> 3

\* dict.get(key, default)
DictGet(data, key, default) ==
    IF data.items[KeyIndex(key)].t = "absent" THEN default ELSE data.items[KeyIndex(key)]

\* whether `for x in v` works, and what it yields
Iterable(v) == v.t \in {"arr", "str"}
IterItems(v) ==
    CASE v.t = "arr" -> v.items
      [] v.t = "str" -> [i \in 1..Len(v.s) |-> JStr(<<v.s[i]>>)]

\* str(v) for the values a bug-line list holds in the model
PyStr(v) ==
    CASE v.t = "num" -> IntToText(v.n)
      [] v.t = "str" -> v.s
      [] v.t = "null" -> <<"None">>

\* json.loads(text): the document, or JSONDecodeError
IsNumberText(s) ==
    LET body == IF s # <<>> /\ s[1] = "-" THEN Tail(s) ELSE s
    IN /\ body # <<>>
       /\ \A i \in 1..Len(body) : IsDigit(body[i])
       /\ (Len(body) > 1 => body[1] # "0")

NumberValue(s) == IF s[1] = "-" THEN -TextToNat(Tail(s)) ELSE TextToNat(s)

IsEmptyObjectText(s) ==
    /\ Len(s) >= 2
    /\ s[1] = "{"
    /\ s[Len(s)] = "}"
    /\ \A i \in 2..(Len(s) - 1) : IsWs(s[i])

JsonLoads(text, doc) ==
    LET s == Strip(text)
    IN IF s = <<JSONDOC>> THEN [ok |-> TRUE, v |-> doc]
       ELSE IF IsNumberText(s) THEN [ok |-> TRUE, v |-> JNum(NumberValue(s))]
       ELSE IF IsEmptyObjectText(s) THEN [ok |-> TRUE, v |-> JObj(JAbsent, JAbsent, JAbsent)]
       ELSE [ok |-> FALSE, v |-> JNull]

-----------------------------------------------------------------------------
(* What a call does: returns a record, or raises.                          *)

Returned(bl, ex, cc) ==
    [exc |-> "", bug_lines |-> bl, explanations |-> ex, corrected_code |-> cc]
Raised(e) ==
    [exc |-> e, bug_lines |-> <<>>, explanations |-> <<>>, corrected_code |-> <<>>]
NotCalled == Raised("not called")

MaxWords == 15
BUG_DETECTED == <<"Bug", SP, "detected">>

\* _truncate(text, max_words)
truncate(text, max_words) ==
    LET words == Split(text)
    IN IF Len(words) <= max_words THEN text
       ELSE Join(<<SP>>, SubSeq(words, 1, max_words))

-----------------------------------------------------------------------------
(* parse_llm_response and its two regular expressions.                     *)

\* re.search(r"```(?:json)?\s*\n?(.*?)\n?```", text, re.DOTALL): the leftmost fence
\* that has a later fence, lazily up to the next fence; group(1).strip()
FenceIdx(t) == {i \in 1..Len(t) : t[i] = FENCE}
FenceMatches(t) == Cardinality(FenceIdx(t)) >= 2
FenceGroup(t) ==
    LET open == MinOf(FenceIdx(t))
        close == MinOf(FenceIdx(t) \ {open})
        first == IF t[open + 1] = TAG_JSON THEN open + 2 ELSE open + 1
    IN Strip(SubSeq(t, first, close - 1))

\* re.search(r"\{.*\}", text, re.DOTALL): from the first "{" to the last "}" after it.
\* A serialised object begins with "{" and ends with "}"; the other documents of
\* the model hold no brace.
OpensBrace(a, doc) == a = "{" \/ (a = JSONDOC /\ doc.t = "obj")
ClosesBrace(a, doc) == a = "}" \/ (a = JSONDOC /\ doc.t = "obj")
BraceOpenIdx(t, doc) == {i \in 1..Len(t) : OpensBrace(t[i], doc)}
BraceCloseIdx(t, doc) ==
    {j \in 1..Len(t) : ClosesBrace(t[j], doc) /\ \E i \in BraceOpenIdx(t, doc) :
        i < j \/ (i = j /\ t[j] = JSONDOC)}
BraceMatches(t, doc) == BraceCloseIdx(t, doc) # {}
BraceGroup(t, doc) ==
    LET closeAt == MaxOf(BraceCloseIdx(t, doc))
        openAt == MinOf({i \in BraceOpenIdx(t, doc) :
                          i < closeAt \/ (i = closeAt /\ t[i] = JSONDOC)})
    IN SubSeq(t, openAt, closeAt)

\* the finditer loop of _fallback_parse over
\* r"[Ll]ine\s+(\d+)\s*[:\-–]\s*(.+?)(?:\n|$)" (re.MULTILINE).
\* LineMatchAt(t, i): the match that starts at atom i, if there is one.
\*   num: group(1); expl: group(2); next: the index after the match.
LineSeparators == {":", "-", "\\u2013"}
NoLineMatch == [ok |-> FALSE, num |-> <<>>, expl |-> <<>>, next |-> 0]
LineMatchAt(t, i) ==
    IF t[i] \notin {"Line", "line"} THEN NoLineMatch
    ELSE
    LET d0 == SkipWs(t, i + 1)          \* \s+
        d1 == SkipDigits(t, d0)         \* (\d+)
        s0 == SkipWs(t, d1)             \* \s*
    IN IF d0 = i + 1 \/ d1 = d0 \/ s0 > Len(t) THEN NoLineMatch
       ELSE IF t[s0] \notin LineSeparators THEN NoLineMatch
       ELSE
       LET g0 == SkipWs(t, s0 + 1)      \* \s*, greedy
           \* when only whitespace follows, \s* gives characters back until
           \* (.+?) finds one that is not a newline
           back == {j \in (s0 + 1)..(g0 - 1) : t[j] # NL}
           p == IF g0 <= Len(t) THEN g0 ELSE IF back # {} THEN MaxOf(back) ELSE 0
       IN IF p = 0 THEN NoLineMatch
          ELSE LET e == LineEnd(t, p)   \* (.+?) ends before "\n" or at the end
               IN [ok |-> TRUE,
                   num |-> SubSeq(t, d0, d1 - 1),
                   expl |-> SubSeq(t, p, e - 1),
                   next |-> IF e <= Len(t) THEN e + 1 ELSE e]

RECURSIVE LineMatchesFrom(_, _)
LineMatchesFrom(t, i) ==
    IF i > Len(t) THEN <<>>
    ELSE LET m == LineMatchAt(t, i)
         IN IF m.ok THEN <<m>> \o LineMatchesFrom(t, m.next)
            ELSE LineMatchesFrom(t, i + 1)

\* re.search(r"Corrected Code:?\s*```(?:cpp|c)?\n?(.*?)```", response,
\*           re.DOTALL | re.IGNORECASE): group(1) of the leftmost match
CodeMatchAt(t, i) ==
    IF t[i] # LABEL_CC THEN [ok |-> FALSE, body |-> <<>>]
    ELSE
    LET c0 == IF i + 1 <= Len(t) /\ t[i + 1] = ":" THEN i + 2 ELSE i + 1
        f0 == SkipWs(t, c0)
    IN IF f0 > Len(t) THEN [ok |-> FALSE, body |-> <<>>]
       ELSE IF t[f0] # FENCE THEN [ok |-> FALSE, body |-> <<>>]
       ELSE
       LET b0 == IF f0 + 1 <= Len(t) /\ t[f0 + 1] \in {"cpp", "c"} THEN f0 + 2 ELSE f0 + 1
           b1 == IF b0 <= Len(t) /\ t[b0] = NL THEN b0 + 1 ELSE b0
           closes == {j \in b1..Len(t) : t[j] = FENCE}
       IN IF closes = {} THEN [ok |-> FALSE, body |-> <<>>]
          ELSE [ok |-> TRUE, body |-> SubSeq(t, b1, MinOf(closes) - 1)]

CodeMatchIdx(t) == {i \in 1..Len(t) : CodeMatchAt(t, i).ok}

\* the explanation a line match contributes
FallbackExplanation(m) == Strip(m.expl)

\* _fallback_parse(response)
fallback_parse(text) ==
    LET ms == LineMatchesFrom(text, 1)
        bug_lines == [k \in 1..Len(ms) |-> ms[k].num]
        explanations == [k \in 1..Len(ms) |-> FallbackExplanation(ms[k])]
        corrected_code ==
            IF CodeMatchIdx(text) = {} THEN <<>>
            ELSE Strip(CodeMatchAt(text, MinOf(CodeMatchIdx(text))).body)
    IN Returned(bug_lines, explanations, corrected_code)

\* (mutant) the padding loop left out
PadExplanations_NoPadding(explanations, bug_lines) == explanations

\* while len(explanations) < len(bug_lines): explanations.append("Bug detected")
RECURSIVE PadExplanations(_, _)
PadExplanations(explanations, bug_lines) ==
    IF Len(explanations) < Len(bug_lines)
    THEN PadExplanations(Append(explanations, BUG_DETECTED), bug_lines)
    ELSE explanations

\* (mutant) the second padding loop left out
PadBugLines_NoPadding(bug_lines, explanations) == bug_lines

\* while len(bug_lines) < len(explanations): bug_lines.append("")
RECURSIVE PadBugLines(_, _)
PadBugLines(bug_lines, explanations) ==
    IF Len(bug_lines) < Len(explanations)
    THEN PadBugLines(Append(bug_lines, <<>>), explanations)
    ELSE bug_lines

\* explanations = [_truncate(e, max_words=15) for e in explanations]
TruncateAll(items) == [k \in 1..Len(items) |-> truncate(items[k].s, MaxWords)]

\* lines 97-113: from the parsed document to the record
FromData(data) ==
    IF data.t # "obj" THEN Raised("AttributeError")      \* data.get
    ELSE
    LET bl == DictGet(data, "bug_lines", JArr(<<>>))
        ex == DictGet(data, "explanations", JArr(<<>>))
        cc == DictGet(data, "corrected_code", JStr(<<>>))
    IN IF ~Iterable(bl) THEN Raised("TypeError")
       ELSE IF ~Iterable(ex) THEN Raised("TypeError")
       ELSE IF \E k \in 1..Len(IterItems(ex)) : IterItems(ex)[k].t # "str"
            THEN Raised("AttributeError")                 \* text.split
       ELSE
       LET bug_lines0 == [k \in 1..Len(IterItems(bl)) |-> PyStr(IterItems(bl)[k])]
           explanations0 == TruncateAll(IterItems(ex))
           explanations1 == PadExplanations(explanations0, bug_lines0)
           bug_lines1 == PadBugLines(bug_lines0, explanations1)
       IN Returned(bug_lines1, explanations1, cc.s)

\* the candidate handed to json.loads (lines 80-90)
Candidate(resp) ==
    LET text0 == Strip(resp.text)
        text1 == IF FenceMatches(text0) THEN FenceGroup(text0) ELSE text0
    IN IF BraceMatches(text1, resp.json) THEN BraceGroup(text1, resp.json) ELSE text1

IsBlank(resp) == Strip(resp.text) = <<>>

parse_llm_response(resp) ==
    IF IsBlank(resp) THEN Returned(<<>>, <<>>, <<>>)
    ELSE LET loaded == JsonLoads(Candidate(resp), resp.json)
         IN IF ~loaded.ok THEN fallback_parse(resp.text)
            ELSE FromData(loaded.v)

-----------------------------------------------------------------------------
(* format_rag_docs.  A retrieval hit is [text, score]; a score is          *)
(* [k |-> "num", v |-> thousandths], [k |-> "absent"] (no "score" key),    *)
(* [k |-> "str"] (a string such as "high") or [k |-> "none"] (None).       *)

Score(k, v) == [k |-> k, v |-> v]
Hit(text, score) == [text |-> text, score |-> score]

\* x.get("score", 0)
GetScore(doc) == IF doc.score.k = "absent" THEN Score("num", 0) ELSE doc.score

\* whether Python orders two keys (a < b does not raise TypeError)
Comparable(a, b) == a.k = b.k /\ a.k # "none"
KeyLess(a, b) == a.v < b.v

Reverse(q) == [i \in 1..Len(q) |-> q[Len(q) + 1 - i]]

\* a stable ascending sort by key: each item goes after the items not greater than it
RECURSIVE InsertSorted(_, _)
InsertSorted(sortedPart, x) ==
    IF sortedPart = <<>> THEN <<x>>
    ELSE IF KeyLess(GetScore(x), GetScore(sortedPart[Len(sortedPart)]))
         THEN Append(InsertSorted(SubSeq(sortedPart, 1, Len(sortedPart) - 1), x),
                     sortedPart[Len(sortedPart)])
         ELSE Append(sortedPart, x)

RECURSIVE StableSortAsc(_)
StableSortAsc(q) ==
    IF q = <<>> THEN <<>>
    ELSE InsertSorted(StableSortAsc(SubSeq(q, 1, Len(q) - 1)), q[Len(q)])

\* (mutant) an ascending sort reversed afterwards: ties come out in reverse order
SortedDesc_TiesReversed(q) == Reverse(StableSortAsc(q))

\* sorted(rag_results, key=..., reverse=True): list.sort reverses the list, sorts
\* it stably in ascending order and reverses it again, so that ties keep their order
SortedDesc(q) == Reverse(StableSortAsc(Reverse(q)))

\* list.sort compares every item with another one; it raises TypeError when
\* two keys are not ordered
SortRaises(q) ==
    \E i, j \in 1..Len(q) : i # j /\ ~Comparable(GetScore(q[i]), GetScore(q[j]))

\* sorted_docs[:max_docs]
TopDocs(q, max_docs) == SubSeq(SortedDesc(q), 1, IF max_docs < Len(q) THEN max_docs ELSE Len(q))

\* f"{score:.3f}" of a score given in thousandths
Format3(v) ==
    NatToText(v \div 1000) \o <<".">> \o
    <<DigitChars[((v \div 100) % 10) + 1], DigitChars[((v \div 10) % 10) + 1],
      DigitChars[(v % 10) + 1]>>

\* f"[Doc {i} (relevance: {score:.3f})]:\n{text}"
RenderPart(i, v, text) ==
    <<"[Doc", SP>> \o IntToText(i) \o <<SP, "(relevance:", SP>> \o Format3(v)
    \o <<")]:", NL>> \o text

\* the loop of lines 153-158 over top[from..]: the parts, or the exception of the
\* first hit that has text and a score that cannot be formatted
RECURSIVE PartsFrom(_, _)
PartsFrom(top, i) ==
    IF i > Len(top) THEN [exc |-> "", parts |-> <<>>]
    ELSE LET text == Strip(top[i].text)
             score == GetScore(top[i])
             rest == PartsFrom(top, i + 1)
         IN IF text = <<>> THEN rest
            ELSE IF score.k = "str" THEN [exc |-> "ValueError", parts |-> <<>>]
            ELSE IF score.k = "none" THEN [exc |-> "TypeError", parts |-> <<>>]
            ELSE IF rest.exc # "" THEN rest
            ELSE [exc |-> "", parts |-> <<RenderPart(i, score.v, text)>> \o rest.parts]

StrReturned(text) == [exc |-> "", out |-> text]
StrRaised(e) == [exc |-> e, out |-> <<>>]
StrNotCalled == StrRaised("not called")

format_rag_docs(rag_results, max_docs) ==
    IF rag_results = <<>> THEN StrReturned(<<>>)
    ELSE IF SortRaises(rag_results) THEN StrRaised("TypeError")
    ELSE LET made == PartsFrom(TopDocs(rag_results, max_docs), 1)
         IN IF made.exc # "" THEN StrRaised(made.exc)
            ELSE StrReturned(Join(<<NL, NL>>, made.parts))

-----------------------------------------------------------------------------
(* The collaborators of analyze_entry.                                     *)

\* str.split("\n"): the lines of a text (one more than its newlines)
RECURSIVE SplitLinesFrom(_, _)
SplitLinesFrom(t, i) ==
    LET e == LineEnd(t, i)
    IN IF e > Len(t) THEN <<SubSeq(t, i, Len(t))>>
       ELSE <<SubSeq(t, i, e - 1)>> \o SplitLinesFrom(t, e + 1)

SplitLines(t) == SplitLinesFrom(t, 1)

\* add_line_numbers(code)
NumberedLine(i, line) == IntToText(i) \o <<":", SP>> \o line
add_line_numbers(code) ==
    LET lines == SplitLines(code)
    IN Join(<<NL>>, [i \in 1..Len(lines) |-> NumberedLine(i, lines[i])])

\* build_analysis_prompt(numbered_code, context, rag_docs, static_errors); the
\* fixed wording of the template is one atom per block
RAG_HEADER == "**Relevant API Documentation (from knowledge base):**"
STATIC_HEADER == "**Static Analysis Findings (CppCheck):**"
STATIC_NOTE == "(Note: Use these findings as strong evidence, but verify them against the context.)"

RagSection(rag_docs) ==
    IF Strip(rag_docs) # <<>> THEN <<NL, RAG_HEADER, NL>> \o rag_docs \o <<NL>> ELSE <<>>
StaticSection(static_errors) ==
    IF Strip(static_errors) # <<>>
    THEN <<NL, STATIC_HEADER, NL>> \o static_errors \o <<NL, STATIC_NOTE, NL>>
    ELSE <<>>

build_analysis_prompt(numbered_code, context, rag_docs, static_errors) ==
    <<"<task>", NL, NL, "**Context:**", SP>> \o context \o <<NL>>
    \o RagSection(rag_docs) \o <<NL>>
    \o StaticSection(static_errors) \o <<NL>>
    \o <<"**Code:**", NL, FENCE, NL>> \o numbered_code \o <<NL, FENCE, NL, NL>>
    \o <<"<bug categories>", NL, NL, "<few-shot examples>", NL, NL, "<rules>", NL, NL,
         "<shape>">>

\* check_code_snippet(code) in an environment run:
\*   tempfile_ok: NamedTemporaryFile and the write succeed
\*   run_ok: subprocess.run returns (cppcheck exists and starts); stderr: its stderr
TEMP_PATH == "<temp_path>"
CppRun(tempfile_ok, run_ok, stderr) ==
    [tempfile_ok |-> tempfile_ok, run_ok |-> run_ok, stderr |-> stderr]

RemoveTempPath(line) == SelectSeq(line, LAMBDA a : a # TEMP_PATH)

\* the filter loop of lines 48-55
RECURSIVE Findings(_)
Findings(lines) ==
    IF lines = <<>> THEN <<>>
    ELSE (IF Strip(lines[1]) # <<>> /\ lines[1][1] # "Checking"
          THEN <<Strip(RemoveTempPath(lines[1]))>> ELSE <<>>)
         \o Findings(Tail(lines))

check_code_snippet(run) ==
    IF ~run.tempfile_ok THEN StrRaised("OSError")
    ELSE IF ~run.run_ok
         THEN StrReturned(<<"Error", SP, "running", SP, "cppcheck:", SP, "FileNotFoundError">>)
    ELSE StrReturned(Join(<<NL>>, Findings(SplitLines(Strip(run.stderr)))))

\* search_docs(mcp_client, query) given what call_tool("search_documents") did:
\*   raises; has_content: result.content is a non-empty list; then its first text
\*   is JSON (json_ok) or a Python literal (literal_ok), of a list (is_list) or not
ToolReply(raises, has_content, json_ok, literal_ok, is_list, docs) ==
    [raises |-> raises, has_content |-> has_content, json_ok |-> json_ok,
     literal_ok |-> literal_ok, is_list |-> is_list, docs |-> docs]

ListReturned(docs) == [exc |-> "", docs |-> docs]
ListRaised(e) == [exc |-> e, docs |-> <<>>]

\* (mutant) the outer try/except left out: a failing tool call propagates
search_docs_Unguarded(reply) ==
    IF reply.raises THEN ListRaised("ToolError")
    ELSE IF reply.has_content /\ (reply.json_ok \/ reply.literal_ok)
         THEN ListReturned(reply.docs)
    ELSE ListReturned(<<>>)

search_docs(reply) ==
    IF reply.raises THEN ListReturned(<<>>)                   \* except Exception
    ELSE IF ~reply.has_content THEN ListReturned(<<>>)
    ELSE IF reply.json_ok
         THEN (IF reply.is_list THEN ListReturned(reply.docs) ELSE ListReturned(<<>>))
    ELSE IF reply.literal_ok /\ reply.is_list THEN ListReturned(reply.docs)
    ELSE ListReturned(<<>>)

\* call_llm(prompt) given what the endpoint did.
\*   sent: client.post returned a response (no transport error or timeout)
\*   status: the HTTP status; body: the payload resp.json() decodes
\*     "invalid"          not JSON
\*     "choices"          {"choices": [{"message": {"content": <content>}}]}
\*     "choices_empty"    {"choices": []}
\*     "choices_bare"     {"choices": [{}]}
\*     "object"           an object without "choices", such as {"error": ...}
\*     "list_generated"   [{"generated_text": <content>}]
\*     "list_object"      [{"x": 1}]
\*     "list_empty"       []
\*     "null"             null
HttpReply(sent, status, body, content) ==
    [sent |-> sent, status |-> status, body |-> body, content |-> content]

Reply(text, json) == [text |-> text, json |-> json]
NoReply == Reply(<<>>, JNull)
\* str(data[0]) of the payload [{"x": 1}]
REPR_OBJECT == Reply(<<"{", "'x':", SP, "1", "}">>, JNull)

TextReturned(r) == [exc |-> "", out |-> r]
TextRaised(e) == [exc |-> e, out |-> NoReply]

\* httpx: Response.is_success
IsSuccess(status) == status \div 100 = 2

\* lines 84-94, once raise_for_status has passed
FromPayload(reply) ==
    IF reply.body = "invalid" THEN TextRaised("JSONDecodeError")       \* resp.json()
    ELSE IF reply.body = "choices" THEN TextReturned(reply.content)
    ELSE IF reply.body = "choices_bare" THEN TextRaised("KeyError")
    ELSE IF reply.body = "list_generated" THEN TextReturned(reply.content)
    ELSE IF reply.body = "list_object" THEN TextReturned(REPR_OBJECT)
    ELSE IF reply.body = "null" THEN TextRaised("TypeError")           \* "choices" in None
    ELSE TextRaised("RuntimeError")

\* (mutant) resp.raise_for_status() left out
call_llm_NoStatusCheck(reply) ==
    IF ~reply.sent THEN TextRaised("ConnectError") ELSE FromPayload(reply)

call_llm(reply) ==
    IF ~reply.sent THEN TextRaised("ConnectError")
    ELSE IF ~IsSuccess(reply.status) THEN TextRaised("HTTPStatusError")
    ELSE FromPayload(reply)

\* the record analyze_entry returns
Result(id, bug_line, explanation, corrected_code, docs) ==
    [ID |-> id, BugLine |-> bug_line, Explanation |-> explanation,
     CorrectedCode |-> corrected_code, RagDocs |-> docs]
NoResult == Result(<<>>, <<>>, <<>>, <<>>, <<>>)

NO_BUGS == <<"No", SP, "bugs", SP, "detected">>

\* lines 129-139
NormalResult(id, res, docs) ==
    Result(id,
           IF res.bug_lines # <<>> THEN Join(<<",">>, res.bug_lines) ELSE <<>>,
           IF res.explanations # <<>> THEN Join(<<";", SP>>, res.explanations) ELSE NO_BUGS,
           res.corrected_code,
           docs)

\* lines 143-149; the exception's name stands for str(e)
ErrorResult(id, e) == Result(id, <<>>, <<"Error:", SP, e>>, <<>>, <<>>)

\* (mutant) a handler for the model call's errors alone
Caught_ModelErrorsOnly(e) == e \in {"HTTPStatusError", "ConnectError", "RuntimeError"}

\* except Exception: every exception a step raises derives from Exception
Caught(e) ==
    e \in {"HTTPStatusError", "ConnectError", "RuntimeError", "JSONDecodeError", "KeyError",
           "TypeError", "ValueError", "AttributeError", "OSError"}

\* csv_result = result.copy(); csv_result.pop("RAG Docs", None)
CsvResult(res) ==
    [ID |-> res.ID, BugLine |-> res.BugLine, Explanation |-> res.Explanation,
     CorrectedCode |-> res.CorrectedCode]

-----------------------------------------------------------------------------
(* The activation of analyze_entry: pc is the step about to run; the other *)
(* fields are its locals, the answers of the environment it consumed, the  *)
(* pending exception and the record it returned.                           *)

MAX_DOCS == 5
CODE == <<"iClamp(1,", SP, "2);", NL, "RDI_END();">>
CONTEXT == <<"clamp", SP, "current">>

NoToolReply == ToolReply(FALSE, FALSE, FALSE, FALSE, FALSE, <<>>)
NoCppRun == CppRun(FALSE, FALSE, <<>>)
NoHttpReply == HttpReply(FALSE, 0, "", NoReply)

IdleCall ==
    [pc |-> "idle", entry_id |-> <<>>,
     mcp_reply |-> NoToolReply, rag_results |-> <<>>, rag_text |-> <<>>,
     cpp_run |-> NoCppRun, static_errors |-> <<>>,
     numbered_code |-> <<>>, prompt |-> <<>>,
     http_reply |-> NoHttpReply, requests |-> 0, response_text |-> NoReply,
     result |-> NotCalled, exc |-> "", raised_at |-> "", returned |-> NoResult]

\* (mutant) the failing step is left in place, to be tried again
Raise_StaysAtStep(c, at, e) == [c EXCEPT !.exc = e, !.raised_at = at]

\* the exception e leaves the step `at` and reaches the except clause
Raise(c, at, e) == [c EXCEPT !.pc = "except", !.exc = e, !.raised_at = at]

\* async with Client(...): __aexit__ runs on the way out, on the normal path
\* and on the exception path alike
Release_OnNormalExitOnly(c, path) == IF path = "normal" THEN "closed" ELSE c

Release(c, path) == "closed"

-----------------------------------------------------------------------------
(* The raw replies parse_llm_response is applied to.                       *)

MaxItems == 2        \* the longest bug-line list and explanation list of a document
MaxExplWords == 16   \* the longest explanation, in words

\* n words separated by single spaces
WordsText(n) == Join(<<SP>>, [i \in 1..n |-> <<"w">>])

ExplLens == {0, 1, MaxWords, MaxExplWords}

\* the lists of at most MaxItems items over a set
RECURSIVE ListsUpTo(_, _)
ListsUpTo(S, n) ==
    IF n = 0 THEN {<<>>}
    ELSE ListsUpTo(S, n - 1) \cup
         {Append(l, x) : l \in {m \in ListsUpTo(S, n - 1) : Len(m) = n - 1}, x \in S}

BugLineItems == {JNum(12), JStr(<<"7">>)}
BugLineFields ==
    {JAbsent, JNull, JStr(<<"1", "2">>)} \cup {JArr(l) : l \in ListsUpTo(BugLineItems, MaxItems)}

ExplanationItems == {JStr(WordsText(n)) : n \in ExplLens \ {0}} \cup {JStr(<<SP, "w", SP, SP, "w">>)}
ExplanationFields ==
    {JAbsent, JNull, JStr(<<"a", "b">>), JArr(<<JNum(1)>>)}
    \cup {JArr(l) : l \in ListsUpTo(ExplanationItems, MaxItems)}

CorrectedCodeFields == {JAbsent, JStr(<<"fixed", SP, "code">>)}

Documents ==
    {JObj(bl, ex, cc) : bl \in BugLineFields, ex \in ExplanationFields, cc \in CorrectedCodeFields}
    \cup {JNum(3), JNull, JStr(<<"w">>), JArr(<<JNum(1)>>)}

\* a line the fallback pattern matches, with an explanation of n words
LineOf(num, n) == <<"Line", SP>> \o num \o <<":", SP>> \o WordsText(n)

ReplyHeads ==
    {<<>>, <<"w", SP, "w", NL>>, <<SP, NL>>}
    \cup {LineOf(<<"5">>, n) \o <<NL>> : n \in ExplLens \ {0}}

ReplyCores ==
    { <<>>,
      <<JSONDOC>>,
      <<FENCE, TAG_JSON, NL, JSONDOC, NL, FENCE>>,
      <<FENCE, NL, JSONDOC, NL, FENCE>>,
      <<FENCE, "w", FENCE, NL, JSONDOC>>,
      <<"{", JSONDOC>>,
      <<JSONDOC, SP, "w", SP, JSONDOC>>,
      <<"{", SP, "}">>,
      <<"}", SP, "{">>,
      <<"4", "2">>,
      <<"w">> }

ReplyTails ==
    { <<>>,
      <<NL, "line", SP, "1", "2", SP, "-", SP, "w", SP, "w">>,
      <<NL, "Line", SP, "7", ":", SP>>,
      <<NL, LABEL_CC, ":", NL, FENCE, "cpp", NL, "fixed", NL, FENCE>> }

Replies == {h \o c \o t : h \in ReplyHeads, c \in ReplyCores, t \in ReplyTails}

\* every document in the plain replies, a few documents in every reply
PlainReplies == {c \in ReplyCores : \E i \in 1..Len(c) : c[i] = JSONDOC}
SampleDocuments ==
    { JNull,
      JArr(<<JNum(1)>>),
      JObj(JArr(<<JNum(12), JStr(<<"7">>)>>), JArr(<<JStr(WordsText(MaxExplWords))>>), JAbsent),
      JObj(JAbsent, JArr(<<JNum(1)>>), JStr(<<"fixed", SP, "code">>)) }

Responses ==
    {[text |-> r, json |-> d] : r \in PlainReplies, d \in Documents}
    \cup {[text |-> r, json |-> d] : r \in Replies, d \in SampleDocuments}

BatchIdle ==
    /\ batch = [kind |-> "none", entries |-> <<>>]
    /\ bpc = "closed" /\ conn = "closed" /\ acquired = 0 /\ abort_cause = ""
    /\ idx = 0 /\ results = <<>> /\ call = IdleCall

ParseIdle == response = [text |-> <<>>, json |-> JNull] /\ parsed = NotCalled
RagIdle == rag_input = [docs |-> <<>>, max_docs |-> 0] /\ rag_output = StrNotCalled

InitParse ==
    /\ response \in Responses
    /\ parsed = NotCalled
    /\ RagIdle
    /\ BatchIdle

\* result = parse_llm_response(response_text)
Parse ==
    /\ parsed = NotCalled
    /\ parsed' = parse_llm_response(response)
    /\ UNCHANGED <<response, ragVars, batchVars>>

-----------------------------------------------------------------------------
(* The retrieval hits format_rag_docs is applied to.                       *)

MaxDocs == 3         \* the longest list of hits
MaxK == 3            \* the largest max_docs

HitTexts == {<<SP>>, <<"A">>, <<NL, "B", SP>>}
WellFormedScores == {Score("absent", 0), Score("num", 0), Score("num", 900)}
MalformedScores == {Score("str", 0), Score("none", 0)}
Hits == {Hit(t, sc) : t \in HitTexts, sc \in WellFormedScores \cup MalformedScores}

InitRag ==
    /\ rag_input \in {[docs |-> q, max_docs |-> k] : q \in ListsUpTo(Hits, MaxDocs), k \in 0..MaxK}
    /\ rag_output = StrNotCalled
    /\ ParseIdle
    /\ BatchIdle

\* rag_text = format_rag_docs(rag_results, max_docs)
FormatRag ==
    /\ rag_output = StrNotCalled
    /\ rag_output' = format_rag_docs(rag_input.docs, rag_input.max_docs)
    /\ UNCHANGED <<rag_input, parseVars, batchVars>>

-----------------------------------------------------------------------------
(* One batch.                                                              *)

MaxEntries == 2      \* the most rows of a batch

\* str(row["ID"]) of row i
EntryId(i) == <<"ID">> \o IntToText(i)

Batches ==
    {[kind |-> k, entries |-> [i \in 1..n |-> EntryId(i)]] :
        k \in {"process_csv", "run_batch"}, n \in 0..MaxEntries}
    \cup {[kind |-> "analyze_single_snippet", entries |-> <<<<"UI_Request">>>>]}

\* what call_tool("search_documents") may do
ToolReplies ==
    { ToolReply(TRUE, FALSE, FALSE, FALSE, FALSE, <<>>),    \* raises
      ToolReply(FALSE, FALSE, FALSE, FALSE, FALSE, <<>>),   \* no content
      ToolReply(FALSE, TRUE, TRUE, FALSE, FALSE, <<>>),     \* JSON, not a list
      ToolReply(FALSE, TRUE, TRUE, FALSE, TRUE, <<>>),      \* JSON []
      ToolReply(FALSE, TRUE, TRUE, FALSE, TRUE,
                <<Hit(<<"A">>, Score("num", 200)), Hit(<<"B">>, Score("num", 900))>>),
      ToolReply(FALSE, TRUE, TRUE, FALSE, TRUE, <<Hit(<<"A">>, Score("str", 0))>>),
      ToolReply(FALSE, TRUE, FALSE, TRUE, TRUE, <<Hit(<<SP>>, Score("absent", 0))>>),
      ToolReply(FALSE, TRUE, FALSE, FALSE, FALSE, <<>>) }   \* neither JSON nor a literal

\* what running cppcheck may do
CppRuns ==
    { CppRun(FALSE, FALSE, <<>>),
      CppRun(TRUE, FALSE, <<>>),
      CppRun(TRUE, TRUE, <<"Checking", SP, TEMP_PATH, SP, "...", NL>>),
      CppRun(TRUE, TRUE, <<TEMP_PATH, "1:", SP, "[style]", SP, "msg", NL, SP, NL,
                           "Checking", SP, TEMP_PATH>>) }

\* what the model may say
LlmReplies ==
    { Reply(<<SP, NL>>, JNull),
      Reply(<<FENCE, TAG_JSON, NL, JSONDOC, NL, FENCE>>,
            JObj(JArr(<<JNum(1), JNum(2)>>), JArr(<<JStr(<<"args", SP, "swapped">>)>>),
                 JStr(<<"iClamp(2,", SP, "1);">>))),
      \* one bug line that holds "," and one explanation that holds "; "
      Reply(<<JSONDOC>>,
            JObj(JArr(<<JStr(<<"1", ",", "2">>)>>),
                 JArr(<<JStr(<<"args", SP, "swapped", ";", SP>> \o BUG_DETECTED)>>),
                 JStr(<<"iClamp(2,", SP, "1);">>))),
      Reply(<<"4", "2">>, JNull) }
FALLBACK_REPLY == Reply(LineOf(<<"5">>, MaxExplWords), JNull)

\* what the endpoint may do
HttpReplies ==
    {HttpReply(TRUE, 200, "choices", r) : r \in LlmReplies}
    \cup {HttpReply(TRUE, 200, b, NoReply) :
            b \in {"invalid", "choices_empty", "choices_bare", "object", "list_object",
                   "list_empty", "null"}}
    \cup {HttpReply(TRUE, 200, "list_generated", FALLBACK_REPLY),
          HttpReply(TRUE, 204, "invalid", NoReply),
          HttpReply(TRUE, 301, "choices", FALLBACK_REPLY),
          HttpReply(TRUE, 404, "object", NoReply),
          HttpReply(TRUE, 500, "list_generated", FALLBACK_REPLY),
          HttpReply(FALSE, 0, "invalid", NoReply)}

Init ==
    /\ batch \in Batches
    /\ bpc = "start" /\ conn = "closed" /\ acquired = 0 /\ abort_cause = ""
    /\ idx = 0 /\ results = <<>> /\ call = IdleCall
    /\ ParseIdle /\ RagIdle

\* async with Client(self.server_url) as mcp_client: __aenter__ returns
Connect ==
    /\ bpc = "start"
    /\ conn' = "open"
    /\ acquired' = acquired + 1
    /\ bpc' = IF batch.kind = "process_csv" THEN "connected" ELSE "loop"
    /\ UNCHANGED <<batch, abort_cause, idx, results, call, parseVars, ragVars>>

\* __aenter__ raises: the server cannot be reached
ConnectFails ==
    /\ bpc = "start"
    /\ bpc' = "aborted"
    /\ abort_cause' = "connect"
    /\ UNCHANGED <<batch, conn, acquired, idx, results, call, parseVars, ragVars>>

\* tools = await mcp_client.list_tools()
ListTools ==
    /\ bpc = "connected"
    /\ bpc' = "loop"
    /\ UNCHANGED <<batch, conn, acquired, abort_cause, idx, results, call, parseVars, ragVars>>

ListToolsFails ==
    /\ bpc = "connected"
    /\ bpc' = "aborted"
    /\ abort_cause' = "list_tools"
    /\ conn' = Release(conn, "exception")
    /\ UNCHANGED <<batch, acquired, idx, results, call, parseVars, ragVars>>

\* the next row is read and analyze_entry is called with it
StartEntry ==
    /\ bpc = "loop"
    /\ idx < Len(batch.entries)
    /\ idx' = idx + 1
    /\ bpc' = "analyzing"
    /\ call' = [IdleCall EXCEPT !.pc = "search", !.entry_id = batch.entries[idx + 1]]
    /\ UNCHANGED <<batch, conn, acquired, abort_cause, results, parseVars, ragVars>>

\* reading the row raises (row["ID"] when the column is missing)
RowFails ==
    /\ bpc = "loop"
    /\ idx < Len(batch.entries)
    /\ batch.kind # "analyze_single_snippet"
    /\ bpc' = "aborted"
    /\ abort_cause' = "row"
    /\ conn' = Release(conn, "exception")
    /\ UNCHANGED <<batch, acquired, idx, results, call, parseVars, ragVars>>

EntryFrame == UNCHANGED <<batch, bpc, conn, acquired, abort_cause, idx, results, parseVars, ragVars>>

\* Step 1: rag_results = await self.search_docs(mcp_client, context)
SearchDocs ==
    /\ bpc = "analyzing" /\ call.pc = "search"
    /\ \E reply \in ToolReplies :
        LET out == search_docs(reply)
            c == [call EXCEPT !.mcp_reply = reply]
        IN call' = IF out.exc # "" THEN Raise(c, "search", out.exc)
                   ELSE [c EXCEPT !.pc = "format", !.rag_results = out.docs]
    /\ EntryFrame

\* rag_text = format_rag_docs(rag_results, max_docs=5)
FormatDocs ==
    /\ bpc = "analyzing" /\ call.pc = "format"
    /\ LET out == format_rag_docs(call.rag_results, MAX_DOCS)
       IN call' = IF out.exc # "" THEN Raise(call, "format", out.exc)
                  ELSE [call EXCEPT !.pc = "static", !.rag_text = out.out]
    /\ EntryFrame

\* Step 2: static_errors = check_code_snippet(code)
CheckCode ==
    /\ bpc = "analyzing" /\ call.pc = "static"
    /\ \E run \in CppRuns :
        LET out == check_code_snippet(run)
            c == [call EXCEPT !.cpp_run = run]
        IN call' = IF out.exc # "" THEN Raise(c, "static", out.exc)
                   ELSE [c EXCEPT !.pc = "number", !.static_errors = out.out]
    /\ EntryFrame

\* Step 3: numbered_code = add_line_numbers(code)
AddLineNumbers ==
    /\ bpc = "analyzing" /\ call.pc = "number"
    /\ call' = [call EXCEPT !.pc = "prompt", !.numbered_code = add_line_numbers(CODE)]
    /\ EntryFrame

\* Step 4: prompt = build_analysis_prompt(numbered_code, context, rag_text, static_errors)
BuildPrompt ==
    /\ bpc = "analyzing" /\ call.pc = "prompt"
    /\ call' = [call EXCEPT !.pc = "llm",
                            !.prompt = build_analysis_prompt(call.numbered_code, CONTEXT,
                                                             call.rag_text, call.static_errors)]
    /\ EntryFrame

\* Step 5: response_text = self.call_llm(prompt): one client.post
CallLlm ==
    /\ bpc = "analyzing" /\ call.pc = "llm"
    /\ \E reply \in HttpReplies :
        LET out == call_llm(reply)
            c == [call EXCEPT !.http_reply = reply, !.requests = call.requests + 1]
        IN call' = IF out.exc # "" THEN Raise(c, "llm", out.exc)
                   ELSE [c EXCEPT !.pc = "parse", !.response_text = out.out]
    /\ EntryFrame

\* Step 6: result = parse_llm_response(response_text)
ParseResponse ==
    /\ bpc = "analyzing" /\ call.pc = "parse"
    /\ LET out == parse_llm_response(call.response_text)
       IN call' = IF out.exc # "" THEN Raise(call, "parse", out.exc)
                  ELSE [call EXCEPT !.pc = "assemble", !.result = out]
    /\ EntryFrame

\* lines 129-139: the record of a normal run
Assemble ==
    /\ bpc = "analyzing" /\ call.pc = "assemble"
    /\ call' = [call EXCEPT !.pc = "returned",
                            !.returned = NormalResult(call.entry_id, call.result,
                                                      call.rag_results)]
    /\ EntryFrame

\* except Exception as e: the error record; an exception the clause does not
\* catch leaves analyze_entry and, with it, the async with block of the caller
HandleException ==
    /\ bpc = "analyzing" /\ call.pc = "except"
    /\ IF Caught(call.exc)
       THEN /\ call' = [call EXCEPT !.pc = "returned",
                                    !.returned = ErrorResult(call.entry_id, call.exc)]
            /\ UNCHANGED <<bpc, abort_cause, conn>>
       ELSE /\ bpc' = "aborted"
            /\ abort_cause' = "analyze_entry"
            /\ conn' = Release(conn, "exception")
            /\ UNCHANGED call
    /\ UNCHANGED <<batch, acquired, idx, results, parseVars, ragVars>>

\* (mutant) only the records of entries that did not fail are collected
Collect_SkipsFailures ==
    /\ bpc = "analyzing" /\ call.pc = "returned"
    /\ batch.kind # "analyze_single_snippet"
    /\ results' = IF call.raised_at = "" THEN Append(results, CsvResult(call.returned))
                  ELSE results
    /\ bpc' = "loop"
    /\ UNCHANGED <<batch, conn, acquired, abort_cause, idx, call, parseVars, ragVars>>

\* results.append(csv_result), and on to the next row
Collect ==
    /\ bpc = "analyzing" /\ call.pc = "returned"
    /\ batch.kind # "analyze_single_snippet"
    /\ results' = Append(results, CsvResult(call.returned))
    /\ bpc' = "loop"
    /\ UNCHANGED <<batch, conn, acquired, abort_cause, idx, call, parseVars, ragVars>>

\* analyze_single_snippet: return await self.analyze_entry(...) leaves the async with
ReturnSnippet ==
    /\ bpc = "analyzing" /\ call.pc = "returned"
    /\ batch.kind = "analyze_single_snippet"
    /\ conn' = Release(conn, "normal")
    /\ bpc' = "closed"
    /\ UNCHANGED <<batch, acquired, abort_cause, idx, results, call, parseVars, ragVars>>

\* the loop is over and the async with block ends
ExitBatch ==
    /\ bpc = "loop"
    /\ idx = Len(batch.entries)
    /\ conn' = Release(conn, "normal")
    /\ bpc' = "closed"
    /\ UNCHANGED <<batch, acquired, abort_cause, idx, results, call, parseVars, ragVars>>

vars == <<parseVars, ragVars, batchVars>>

Next ==
    \/ Connect \/ ConnectFails \/ ListTools \/ ListToolsFails
    \/ StartEntry \/ RowFails
    \/ SearchDocs \/ FormatDocs \/ CheckCode \/ AddLineNumbers \/ BuildPrompt
    \/ CallLlm \/ ParseResponse \/ Assemble \/ HandleException
    \/ Collect \/ ReturnSnippet \/ ExitBatch

Spec == Init /\ [][Next]_vars

NextParse == Parse

SpecParse == InitParse /\ [][NextParse]_vars

NextRag == FormatRag

SpecRag == InitRag /\ [][NextRag]_vars

-----------------------------------------------------------------------------
(* Claims about parse_llm_response (SpecParse)                             *)

WordCount(text) == Len(Split(text))

\* C1: whenever parse_llm_response returns a record (blank reply, structured
\* path or fallback path), its bug_lines and its explanations have the same length.
C1_SameLength ==
    parsed.exc = "" => Len(parsed.bug_lines) = Len(parsed.explanations)

\* a document with two bug lines and one explanation was parsed on the structured path
C1_Witness ==
    /\ parsed.exc = ""
    /\ response.text = <<JSONDOC>>
    /\ response.json.t = "obj"
    /\ response.json.items[1].t = "arr" /\ Len(response.json.items[1].items) = 2
    /\ response.json.items[2].t = "arr" /\ Len(response.json.items[2].items) = 1

\* C2: every explanation of a returned record has at most 15 words, on the
\* structured path and on the fallback path.
C2_AtMost15Words ==
    parsed.exc = "" =>
        \A k \in 1..Len(parsed.explanations) : WordCount(parsed.explanations[k]) <= MaxWords

\* the part of C2 the code keeps: the structured path
C2_StructuredAtMost15Words ==
    (parsed.exc = "" /\ JsonLoads(Candidate(response), response.json).ok) =>
        \A k \in 1..Len(parsed.explanations) : WordCount(parsed.explanations[k]) <= MaxWords

-----------------------------------------------------------------------------
(* Claims about format_rag_docs (SpecRag)                                  *)

WellFormedHits(q) == \A i \in 1..Len(q) : q[i].score.k \in {"num", "absent"}

\* the score a hit counts with: an absent score is 0
ScoreOf(hit) == IF hit.score.k = "num" THEN hit.score.v ELSE 0

\* the 1-based position of hit j once the hits are ordered by descending score,
\* ties in source order: one more than the number of hits that go before it
RankOf(q, j) ==
    1 + Cardinality({m \in 1..Len(q) :
            \/ ScoreOf(q[m]) > ScoreOf(q[j])
            \/ (ScoreOf(q[m]) = ScoreOf(q[j]) /\ m < j)})

HitAtRank(q, r) == q[CHOOSE j \in 1..Len(q) : RankOf(q, j) = r]

\* the blocks of the ranks r..k, blank texts left out, each labelled with its rank
RECURSIVE ExpectedBlocks(_, _, _)
ExpectedBlocks(q, r, k) ==
    IF r > k \/ r > Len(q) THEN <<>>
    ELSE LET hit == HitAtRank(q, r)
         IN (IF Strip(hit.text) = <<>> THEN <<>>
             ELSE <<RenderPart(r, ScoreOf(hit), Strip(hit.text))>>)
            \o ExpectedBlocks(q, r + 1, k)

BlockCount(out) == Cardinality({i \in 1..Len(out) : out[i] = "[Doc"})

\* C8: format_rag_docs(docs, k) renders exactly the hits with non-blank text among
\* the first k of docs ordered by descending score (ties in source order, an absent
\* score counted as 0), in that order, each labelled with its position among those
\* k; so at most k blocks, and the empty string when nothing is left.
C8_RendersTopK ==
    (rag_output # StrNotCalled /\ WellFormedHits(rag_input.docs)) =>
        /\ rag_output = StrReturned(
               Join(<<NL, NL>>, ExpectedBlocks(rag_input.docs, 1, rag_input.max_docs)))
        /\ BlockCount(rag_output.out) <= rag_input.max_docs
        /\ ((\A r \in 1..Len(rag_input.docs) :
                r <= rag_input.max_docs => Strip(HitAtRank(rag_input.docs, r).text) = <<>>)
            => rag_output.out = <<>>)

\* three hits, k = 2: the first and the third tie above the second, and both are rendered
C8_Witness ==
    /\ rag_output.exc = ""
    /\ WellFormedHits(rag_input.docs)
    /\ Len(rag_input.docs) = 3
    /\ rag_input.max_docs = 2
    /\ ScoreOf(rag_input.docs[1]) = ScoreOf(rag_input.docs[3])
    /\ ScoreOf(rag_input.docs[2]) < ScoreOf(rag_input.docs[1])
    /\ Strip(rag_input.docs[1].text) # Strip(rag_input.docs[3].text)
    /\ BlockCount(rag_output.out) = 2

\* the hits with every malformed score replaced by 0
Coerced(q) ==
    [i \in 1..Len(q) |->
        IF q[i].score.k \in {"num", "absent"} THEN q[i] ELSE Hit(q[i].text, Score("num", 0))]

\* C9: format_rag_docs never raises: for every list of hits, also with an absent
\* or malformed score, it returns a string, the malformed score counted as 0.
C9_NeverRaises ==
    rag_output # StrNotCalled =>
        rag_output = StrReturned(
            Join(<<NL, NL>>, ExpectedBlocks(Coerced(rag_input.docs), 1, rag_input.max_docs)))

-----------------------------------------------------------------------------
(* Claims about analyze_entry, call_llm and the batch (Spec)               *)

StepOrder == <<"search", "format", "static", "number", "prompt", "llm", "parse", "assemble">>
StepPos(step) == CHOOSE i \in 1..Len(StepOrder) : StepOrder[i] = step

\* whether the call has run the step (to its end, or to the point where it raised)
Attempted(c, step) ==
    IF c.pc = "idle" THEN FALSE
    ELSE IF c.pc \in {"except", "returned"}
         THEN (c.raised_at = "" \/ StepPos(step) <= StepPos(c.raised_at))
    ELSE StepPos(step) < StepPos(c.pc)

AtomsOf(t) == {t[i] : i \in 1..Len(t)}
IsErrorText(t) == Len(t) >= 1 /\ t[1] = "Error:"

\* C3: analyze_entry never lets an exception out: whenever a step raised, it
\* returns a record for the same entry with an empty Bug Line, an empty Corrected
\* Code and an Explanation that begins with "Error:".
C3_NeverPropagates ==
    /\ abort_cause # "analyze_entry"
    /\ (call.pc = "returned" /\ call.raised_at # "") =>
          /\ call.returned.ID = call.entry_id
          /\ call.entry_id = batch.entries[idx]
          /\ call.returned.BugLine = <<>>
          /\ call.returned.CorrectedCode = <<>>
          /\ IsErrorText(call.returned.Explanation)

\* the normaliser raised on a reply that is JSON but no object, and the call returned
C3_Witness ==
    /\ call.pc = "returned"
    /\ call.raised_at = "parse"
    /\ call.exc = "AttributeError"

StaticFailed(run) == ~run.tempfile_ok \/ ~run.run_ok

\* C4: when the static-analysis step fails (the checker cannot be run, or raises),
\* the failure is absorbed as "no findings": the findings text is empty, the prompt
\* has no static-findings section, and the step does not end the analysis.
C4_StaticFailureIsNoFindings ==
    (Attempted(call, "static") /\ StaticFailed(call.cpp_run)) =>
        /\ call.raised_at # "static"
        /\ call.static_errors = <<>>
        /\ (Attempted(call, "prompt") => STATIC_HEADER \notin AtomsOf(call.prompt))

\* the retrieval collaborator raised, or returned no list, or an empty list
RetrievalDegraded(reply) ==
    \/ reply.raises
    \/ ~reply.has_content
    \/ ~reply.is_list
    \/ (~reply.json_ok /\ ~reply.literal_ok)
    \/ reply.docs = <<>>

\* C5: when the retrieval collaborator raises, returns a non-list or an empty list,
\* search_docs yields the empty list, the evidence text is empty, the analysis goes
\* on to static analysis and the model call, and no "Error:" record comes of it.
C5_RetrievalDegrades ==
    (Attempted(call, "search") /\ RetrievalDegraded(call.mcp_reply)) =>
        /\ call.rag_results = <<>>
        /\ call.rag_text = <<>>
        /\ call.raised_at \notin {"search", "format"}
        /\ (Attempted(call, "prompt") => RAG_HEADER \notin AtomsOf(call.prompt))
        /\ (Attempted(call, "llm") => call.requests = 1)
        /\ (call.pc = "returned" /\ IsErrorText(call.returned.Explanation)
                => call.raised_at \in {"static", "llm", "parse"})
        /\ (call.pc = "returned" /\ call.raised_at = ""
                => call.returned = NormalResult(call.entry_id, call.result, <<>>))

\* the tool call raised, and the call returned the record of a normal run
C5_Witness ==
    /\ call.mcp_reply.raises
    /\ call.pc = "returned"
    /\ call.raised_at = ""
    /\ call.requests = 1
    /\ ~IsErrorText(call.returned.Explanation)

IsBatch == batch.kind \in {"process_csv", "run_batch"}

\* C6: in a batch over n rows, whatever fails inside the entries, every row is
\* analysed and the results end as n records, the i-th with the ID of the i-th
\* row: no entry's failure ends the batch.
C6_BatchKeepsEveryEntry ==
    IsBatch =>
        /\ Len(results) = (IF bpc = "analyzing" THEN idx - 1 ELSE idx)
        /\ \A i \in 1..Len(results) : results[i].ID = batch.entries[i]
        /\ (bpc = "closed" => Len(results) = Len(batch.entries))
        /\ (bpc = "aborted" => abort_cause \in {"connect", "list_tools", "row"})

\* a batch of two rows ended: the first entry failed, the second did not
C6_Witness ==
    /\ IsBatch
    /\ bpc = "closed"
    /\ Len(batch.entries) = 2
    /\ Len(results) = 2
    /\ IsErrorText(results[1].Explanation)
    /\ ~IsErrorText(results[2].Explanation)

\* C7: the connection is acquired once per batch, is open during every entry's
\* analysis, and is released on every way out: the normal end, and an abort in
\* the middle (listing the tools or reading a row fails).
C7_ConnectionScoped ==
    /\ acquired <= 1
    /\ (bpc = "start" => conn = "closed" /\ acquired = 0)
    /\ (bpc \in {"connected", "loop", "analyzing"} => conn = "open" /\ acquired = 1)
    /\ (bpc \in {"closed", "aborted"} => conn = "closed")
    /\ (bpc = "closed" /\ batch.kind # "none" => acquired = 1)

\* reading the second row failed after the first entry was analysed
C7_Witness ==
    /\ bpc = "aborted"
    /\ abort_cause = "row"
    /\ idx = 1
    /\ Len(results) = 1
    /\ acquired = 1
    /\ conn = "closed"

ReturnedText(c) == Attempted(c, "llm") /\ c.raised_at # "llm"
Is2xx(status) == status >= 200 /\ status <= 299

\* C10 as stated: call_llm returns text only for a 2xx status with the "choices"
\* shape; every other status and every other payload fails; one request is sent.
C10_OnlyChoicesReturnsText ==
    Attempted(call, "llm") =>
        /\ (ReturnedText(call) =>
               /\ call.http_reply.sent
               /\ Is2xx(call.http_reply.status)
               /\ call.http_reply.body = "choices")
        /\ call.requests = 1

\* C10 as amended: text comes back only for a 2xx status whose payload has the
\* "choices" shape or is a non-empty array (the fallback of lines 90-92); every
\* other status and every other payload fails; the "choices" content is returned
\* as it is; one request is sent.
C10_ChoicesOrListReturnsText ==
    Attempted(call, "llm") =>
        /\ (ReturnedText(call) =>
               /\ call.http_reply.sent
               /\ Is2xx(call.http_reply.status)
               /\ call.http_reply.body \in {"choices", "list_generated", "list_object"})
        /\ ((call.http_reply.sent /\ Is2xx(call.http_reply.status)
             /\ call.http_reply.body = "choices")
               => ReturnedText(call) /\ call.response_text = call.http_reply.content)
        /\ call.requests = 1

\* a 200 reply in the generated_text shape was returned as text
C10_Witness ==
    /\ call.pc = "parse"
    /\ call.http_reply.status = 200
    /\ call.http_reply.body = "list_generated"
    /\ call.response_text = FALLBACK_REPLY
    /\ call.requests = 1

-----------------------------------------------------------------------------
(* Claims about the record analyze_entry builds from a normalized result   *)

\* the normalized results the model's replies lead to
NormalizedResults ==
    {r \in {parse_llm_response(reply) : reply \in LlmReplies \cup {FALLBACK_REPLY}} :
        r.exc = ""}

\* the three columns the record takes from the result
Columns(rec) == <<rec.BugLine, rec.Explanation, rec.CorrectedCode>>

\* C11: the projection of a normalized result into the record (Bug Line, the
\* bug lines joined by ","; Explanation, the explanations joined by "; " or
\* "No bugs detected"; Corrected Code) is lossless: no normalized result that
\* differs from the one analyze_entry projected has the same three columns.
C11_ProjectionLossless ==
    (call.pc = "returned" /\ call.raised_at = "") =>
        \A other \in NormalizedResults :
            other # call.result =>
                Columns(NormalResult(call.entry_id, other, call.rag_results))
                    # Columns(call.returned)

-----------------------------------------------------------------------------
(* Claims about the paths of parse_llm_response (SpecParse)                *)

\* the members of a list field; a missing field is the empty list
ListItems(field) == IF field.t = "arr" THEN field.items ELSE <<>>

\* the reply is not blank, its candidate parsed to an object, the object's
\* bug_lines and explanations are lists (or missing), the explanations strings
StructuredLists(resp) ==
    /\ ~IsBlank(resp)
    /\ JsonLoads(Candidate(resp), resp.json).ok
    /\ LET data == JsonLoads(Candidate(resp), resp.json).v
       IN /\ data.t = "obj"
          /\ data.items[1].t \in {"arr", "absent"}
          /\ data.items[2].t \in {"arr", "absent"}
          /\ \A k \in 1..Len(ListItems(data.items[2])) : ListItems(data.items[2])[k].t = "str"

\* C12: on the structured path, for an object with m bug-line values and n
\* explanations, both lists of the record have length max(m, n): the first m bug
\* lines are the string forms of the values in order, the first n explanations
\* the truncated explanations in order, every appended explanation is
\* "Bug detected", every appended bug line is the empty string.
C12_PadsToLonger ==
    (parsed # NotCalled /\ StructuredLists(response)) =>
        LET data == JsonLoads(Candidate(response), response.json).v
            bl == ListItems(data.items[1])
            ex == ListItems(data.items[2])
            m == Len(bl)
            n == Len(ex)
            longer == IF m >= n THEN m ELSE n
        IN /\ parsed.exc = ""
           /\ Len(parsed.bug_lines) = longer
           /\ Len(parsed.explanations) = longer
           /\ \A k \in 1..m : parsed.bug_lines[k] = PyStr(bl[k])
           /\ \A k \in 1..n : parsed.explanations[k] = truncate(ex[k].s, MaxWords)
           /\ \A k \in (n + 1)..longer : parsed.explanations[k] = BUG_DETECTED
           /\ \A k \in (m + 1)..longer : parsed.bug_lines[k] = <<>>

\* an object with one bug line and two explanations, the second one longer than
\* 15 words, was parsed: the bug lines got one empty string
C12_Witness ==
    /\ parsed.exc = ""
    /\ StructuredLists(response)
    /\ Len(ListItems(JsonLoads(Candidate(response), response.json).v.items[1])) = 1
    /\ Len(ListItems(JsonLoads(Candidate(response), response.json).v.items[2])) = 2
    /\ WordCount(JsonLoads(Candidate(response), response.json).v.items[2].items[2].s) > MaxWords
    /\ Len(parsed.bug_lines) = 2
    /\ parsed.bug_lines[2] = <<>>

\* json.loads gave an object for the candidate of the reply
ObjectObtained(resp) ==
    /\ JsonLoads(Candidate(resp), resp.json).ok
    /\ JsonLoads(Candidate(resp), resp.json).v.t = "obj"

\* C13: for a blank reply neither parser runs and the all-empty default is
\* returned; for a non-blank reply the fallback parser runs if and only if no
\* parseable object was obtained from the candidate, and it then scans the
\* original raw reply: the outcome is the fallback parser's outcome over the raw
\* reply when no object was obtained, the structured path's outcome otherwise.
C13_FallbackIffNoObject ==
    parsed # NotCalled =>
        /\ (IsBlank(response) => parsed = Returned(<<>>, <<>>, <<>>))
        /\ ((~IsBlank(response) /\ ~ObjectObtained(response))
               => parsed = fallback_parse(response.text))
        /\ ((~IsBlank(response) /\ ObjectObtained(response))
               => parsed = FromData(JsonLoads(Candidate(response), response.json).v))

\* C15: parse_llm_response is total: for every reply it returns a record and
\* never raises, also when the candidate is valid JSON but no object, when
\* bug_lines or explanations is not a list, when an explanation is not a string.
C15_NeverRaises ==
    parsed # NotCalled => parsed.exc = ""

-----------------------------------------------------------------------------
(* Claims about the order of the steps of analyze_entry (Spec)             *)

\* where a run is after the step at `pc` completed
StepAfter(pc) ==
    IF pc = "assemble" THEN "returned" ELSE StepOrder[StepPos(pc) + 1]

IsStep(pc) == \E i \in 1..Len(StepOrder) : StepOrder[i] = pc

\* a step that the run has not reached has left nothing behind
NothingAhead(c) ==
    /\ (~Attempted(c, "search") => c.rag_results = <<>>)
    /\ (~Attempted(c, "format") => c.rag_text = <<>>)
    /\ (~Attempted(c, "static") => c.static_errors = <<>>)
    /\ (~Attempted(c, "number") => c.numbered_code = <<>>)
    /\ (~Attempted(c, "prompt") => c.prompt = <<>>)
    /\ (~Attempted(c, "llm") => c.requests = 0 /\ c.http_reply = NoHttpReply)
    /\ (~Attempted(c, "parse") => c.result = NotCalled)
    /\ (~Attempted(c, "assemble") => c.raised_at # "" \/ c.returned = NoResult)

\* one move of a run: a new run begins at retrieval, a step hands over to the
\* next one or raises into the handler, the handler returns
OneStepForward(c, d) ==
    \/ c.pc \in {"idle", "returned"} /\ d.pc = "search" /\ d.raised_at = ""
    \/ IsStep(c.pc) /\ c.raised_at = "" /\ d.pc = StepAfter(c.pc) /\ d.raised_at = ""
    \/ IsStep(c.pc) /\ c.raised_at = "" /\ d.pc = "except" /\ d.raised_at = c.pc
    \/ c.pc = "except" /\ d.pc = "returned" /\ d.raised_at = c.raised_at

\* C14: within one analyze_entry run the steps occur in the order retrieval,
\* static analysis, line numbering, prompt building, model call, normalization;
\* each occurs at most once (the model call sends at most one request), a step
\* starts only after the previous one completed, and after a step has raised no
\* later step occurs: the run goes to the handler and returns.
C14_StrictlySequential ==
    /\ [](NothingAhead(call) /\ call.requests <= 1)
    /\ [][call' # call => OneStepForward(call, call')]_vars

\* the static-analysis step raised: the run returned without a prompt and
\* without a request to the model
C14_Witness ==
    /\ call.pc = "returned"
    /\ call.raised_at = "static"
    /\ call.mcp_reply # NoToolReply
    /\ call.prompt = <<>>
    /\ call.requests = 0
    /\ call.result = NotCalled

====
